---- MODULE Spec2Model ----
(***************************************************************************)
(* Camos AI Assistant: the Streamlit application shell (app.py), the       *)
(* retrieval pipeline (src/rag_pipeline.py) and the document ingestor and  *)
(* vector store builder/loader (src/data_ingestor.py) as a state machine.  *)
(*                                                                         *)
(* One action is one script run of app.py for one user interaction (a      *)
(* Streamlit app reruns the whole script on each interaction), including   *)
(* the rerun the handler asks for with st.rerun().                         *)
(*                                                                         *)
(* Third-party libraries are modelled by their call contract: a call       *)
(* either returns or raises, chosen by the caller's \E.  A Python call is  *)
(* a record [raised, value]; None is the record None.                      *)
(***************************************************************************)
EXTENDS Integers, Sequences, FiniteSets, TLC

\* ---------------------------------------------------------------- bounds
MaxDocs == 2          \* documents that can be present in pdf_data_dir
MaxQuestions == 2     \* questions submitted, and rows the FAQ store grows to
MaxChats == 1         \* chat prompts kept in st.session_state.messages

\* ------------------------------------------------------ program constants
TopK == 5             \* search_kwargs={"k": 5}

Docs == 1..MaxDocs

None == [none |-> TRUE]

Return(v) == [raised |-> FALSE, value |-> v]
Raise(e) == [raised |-> TRUE, value |-> [exc |-> e]]

\* ------------------------------------------------- src/data_ingestor.py

\* What a PDF at a path is, as far as the ingestor can tell.
\*   loader : PyMuPDFLoader(path).load() returns the page text or raises
\*   image  : the embedded image: none; ok (OCR gives text); blank (OCR gives
\*            only whitespace); ocr_error (PIL/Tesseract raises);
\*            extract_error (fitz raises while the image is being extracted)
\*   table  : camelot.read_pdf: none found; ok (one table); error (raises)
ImageStates == {"none", "ok", "blank", "ocr_error", "extract_error"}
TableStates == {"none", "ok", "error"}
PdfFiles == [loader : {"ok", "corrupt"}, image : ImageStates, table : TableStates]
Absent == [absent |-> TRUE]

TextPdf == [loader |-> "ok", image |-> "none", table |-> "none"]
CorruptPdf == [loader |-> "corrupt", image |-> "none", table |-> "none"]

Document(d, type) == [source |-> d, type |-> type]

\* extract_text_from_image_ocr: "" on any OCR failure, else the text.
extract_text_from_image_ocr(image) ==
    IF image = "ocr_error" THEN ""
    ELSE IF image = "blank" THEN " "
    ELSE "text"

\* str.strip() on the strings the model uses.
strip(s) ==
    IF s = " " THEN "" ELSE IF s = " q" THEN "q" ELSE IF s = "a " THEN "a" ELSE s

\* Stage 1 of extract_additional_content_from_pdf: OCR of the images.
\* An error outside extract_text_from_image_ocr is not caught in the stage.
OcrStage(d, pdf) ==
    IF pdf.image = "extract_error" THEN Raise("extract_image")
    ELSE IF pdf.image = "none" THEN Return(<<>>)
    ELSE IF strip(extract_text_from_image_ocr(pdf.image)) # ""
         THEN Return(<<Document(d, "image_ocr")>>)
         ELSE Return(<<>>)

\* Stage 2 of extract_additional_content_from_pdf: Camelot tables.
TableStage(d, pdf) ==
    IF pdf.table = "error" THEN Raise("camelot")
    ELSE IF pdf.table = "ok" THEN Return(<<Document(d, "table_data")>>)
    ELSE Return(<<>>)

\* One try block spans both stages; additional_docs collected before the
\* exception are returned.
extract_additional_content_from_pdf(d, pdf) ==
    LET ocr == OcrStage(d, pdf)
        tbl == TableStage(d, pdf)
    IN  IF ocr.raised THEN <<>>
        ELSE IF tbl.raised THEN ocr.value
        ELSE ocr.value \o tbl.value

\* The body of the per-file loop of load_and_process_camos_docs: the chunks
\* one file contributes.  The text splitter keeps each record's metadata;
\* a record is one chunk here.
ProcessPdf(d, pdf) ==
    IF pdf.loader = "corrupt" THEN <<>>
    ELSE <<Document(d, "body_text")>> \o extract_additional_content_from_pdf(d, pdf)

RECURSIVE LoadFrom(_, _)
LoadFrom(dir, d) ==
    IF d > MaxDocs THEN <<>>
    ELSE (IF dir[d] = Absent THEN <<>> ELSE ProcessPdf(d, dir[d])) \o LoadFrom(dir, d + 1)

load_and_process_camos_docs(dir) == LoadFrom(dir, 1)

\* The directory at vector_store_path: missing, or a directory whose files
\* are a saved index (the chunk records it holds) or no files at all.
MissingDir == [exists |-> FALSE, files |-> <<>>]
EmptyDir == [exists |-> TRUE, files |-> <<>>]
IndexDir(documents) == [exists |-> TRUE, files |-> documents]

listdir(dir) == dir.files

\* create_and_save_vector_store adding to the saved index instead of replacing it.
create_and_save_vector_store_merge(documents, embedOk, dir) ==
    IF documents = <<>> THEN Return(None) @@ [dir |-> dir]
    ELSE IF ~embedOk THEN Raise("embeddings") @@ [dir |-> dir]
    ELSE Return([docs |-> dir.files \o documents])
         @@ [dir |-> IndexDir(dir.files \o documents)]

\* create_and_save_vector_store saving an index of no records when it is
\* given none.
create_and_save_vector_store_saves_empty(documents, embedOk, dir) ==
    IF documents = <<>> THEN Return(None) @@ [dir |-> EmptyDir]
    ELSE IF ~embedOk THEN Raise("embeddings") @@ [dir |-> dir]
    ELSE Return([docs |-> documents]) @@ [dir |-> IndexDir(documents)]

\* create_and_save_vector_store: [raised, value, dir] with dir the directory
\* afterwards.  embedOk: the embedding model loads and embeds.
create_and_save_vector_store(documents, embedOk, dir) ==
    IF documents = <<>> THEN Return(None) @@ [dir |-> dir]
    ELSE IF ~embedOk THEN Raise("embeddings") @@ [dir |-> dir]
    ELSE Return([docs |-> documents]) @@ [dir |-> IndexDir(documents)]

\* load_vector_store: only a missing directory is checked for;
\* FAISS.load_local raises when index.faiss is not in the directory.
load_vector_store(embedOk, dir) ==
    IF ~dir.exists THEN Return(None)
    ELSE IF ~embedOk THEN Raise("embeddings")
    ELSE IF listdir(dir) = <<>> THEN Raise("index.faiss not found")
    ELSE Return([docs |-> dir.files])

\* -------------------------------------------------- src/rag_pipeline.py

\* config/prompt_templates.yaml as load_prompt_templates finds it: absent, or
\* a mapping.  rag : the key rag_template is present.  debug : the key
\* debug_template is ok (str.format succeeds with code_snippet and
\* error_message), missing (KeyError on lookup) or bad_field (it holds a
\* brace field str.format cannot fill, KeyError/ValueError in format).
AbsentFile == [absent |-> TRUE]
TemplateMappings == [rag : BOOLEAN, debug : {"ok", "missing", "bad_field"}]
GoodTemplates == [rag |-> TRUE, debug |-> "ok"]

load_prompt_templates(file) ==
    IF file = AbsentFile THEN Raise("FileNotFoundError") ELSE Return(file)

\* _load_or_recreate_vector_store: [raised, value, prints].
_load_or_recreate_vector_store(embedOk, dir) ==
    IF dir.exists /\ Len(listdir(dir)) > 0
    THEN load_vector_store(embedOk, dir) @@ [prints |-> <<>>]
    ELSE Return(None) @@ [prints |-> <<"FAISS index not found">>]

\* _initialize_qa_chain building the prompt before it looks at the retriever.
_initialize_qa_chain_eager(templates, retriever) ==
    IF ~templates.rag THEN Raise("KeyError: rag_template")
    ELSE IF retriever = None THEN Return(None)
    ELSE Return([chain_type |-> "stuff", retriever |-> retriever])

\* _initialize_qa_chain.
_initialize_qa_chain(templates, retriever) ==
    IF retriever = None THEN Return(None)
    ELSE IF ~templates.rag THEN Raise("KeyError: rag_template")
    ELSE Return([chain_type |-> "stuff", retriever |-> retriever])

\* CamosRAGPipeline.__init__: [raised, value, prints]; value is the object.
\* embedOk: SentenceTransformerEmbeddings loads the model.  Ollama(...) only
\* records its settings.
CamosRAGPipeline(file, embedOk, dir) ==
    LET tpl == load_prompt_templates(file)
        vs == _load_or_recreate_vector_store(embedOk, dir)
        retriever == IF vs.value # None THEN [k |-> TopK] ELSE None
        p1 == <<"Embeddings initialized", "Ollama LLM initialized">> \o vs.prints
        p2 == p1 \o (IF vs.value # None THEN <<"Retriever initialized.">>
                     ELSE <<"WARNING: Vector store not loaded">>)
        qa == _initialize_qa_chain(tpl.value, retriever)
    IN  IF tpl.raised THEN tpl @@ [prints |-> <<>>]
        ELSE IF ~embedOk THEN Raise("embeddings") @@ [prints |-> <<>>]
        ELSE IF vs.raised THEN [raised |-> TRUE, value |-> vs.value, prints |-> p1]
        ELSE IF qa.raised THEN qa @@ [prints |-> p2]
        ELSE [raised |-> FALSE,
              value |-> [prompt_templates |-> tpl.value,
                         embeddings |-> "built", llm |-> "built",
                         vectorstore |-> vs.value, retriever |-> retriever,
                         qa_chain |-> qa.value],
              prints |-> p2 \o <<"RAG Pipeline initialized.">>]

NOT_READY_MSG == <<"RAG system not ready. Please ensure data has been ingested.">>

\* config['ollama_model_name']
ollama_model_name == "mistral"

RagErrorMsg(e) ==
    <<"An error occurred during AI processing: ", e,
      ". Please ensure Ollama server is running and the model '",
      ollama_model_name, "' is pulled.">>

DebugErrorMsg(e) ==
    <<"An error occurred during code debugging: ", e,
      ". Please ensure Ollama server is running and the model '",
      ollama_model_name, "' is pulled.">>

\* What the chain or the LLM does when invoked: it answers, or the retrieval
\* or the LLM call raises error e.
Errors == {"ConnectionError"}
ChainOutcomes == {[ok |-> TRUE, stage |-> "none", err |-> "none"]}
                 \cup [ok : {FALSE}, stage : {"retrieval", "llm"}, err : Errors]

\* query_rag without its try/except.
query_rag_propagates(self, question, outcome) ==
    IF self.qa_chain = None
    THEN Return(NOT_READY_MSG) @@ [chain_called |-> FALSE]
    ELSE IF outcome.ok
         THEN Return(<<"answer to ", question>>) @@ [chain_called |-> TRUE]
         ELSE Raise(outcome.err) @@ [chain_called |-> TRUE]

\* query_rag without its readiness check: calling None raises inside the try.
query_rag_unguarded(self, question, outcome) ==
    IF self.qa_chain = None
    THEN Return(RagErrorMsg("TypeError")) @@ [chain_called |-> TRUE]
    ELSE IF outcome.ok
         THEN Return(<<"answer to ", question>>) @@ [chain_called |-> TRUE]
         ELSE Return(RagErrorMsg(outcome.err)) @@ [chain_called |-> TRUE]

\* query_rag: [raised, value, chain_called].
query_rag(self, question, outcome) ==
    IF self.qa_chain = None
    THEN Return(NOT_READY_MSG) @@ [chain_called |-> FALSE]
    ELSE IF outcome.ok
         THEN Return(<<"answer to ", question>>) @@ [chain_called |-> TRUE]
         ELSE Return(RagErrorMsg(outcome.err)) @@ [chain_called |-> TRUE]

\* debug_code: [raised, value, chain_called].  The template is looked up and
\* formatted before the try block.
debug_code(self, code_snippet, error_message, outcome) ==
    IF self.prompt_templates.debug = "missing"
    THEN Raise("KeyError: debug_template") @@ [chain_called |-> FALSE]
    ELSE IF self.prompt_templates.debug = "bad_field"
    THEN Raise("KeyError in str.format") @@ [chain_called |-> FALSE]
    ELSE IF outcome.ok
         THEN Return(<<"debug of ", code_snippet, error_message>>) @@ [chain_called |-> FALSE]
         ELSE Return(DebugErrorMsg(outcome.err)) @@ [chain_called |-> FALSE]

\* ------------------------------------------------------------- app.py

VARIABLES
    pdf_dir,                \* pdf_data_dir: Docs -> the PDF there, or Absent
    vector_store_dir,       \* the directory at vector_store_path
    prompt_templates_file,  \* config/prompt_templates.yaml
    cache,                  \* st.cache_resource of initialize_rag_pipeline_cached
    rag_pipeline,           \* the module global of the last script run
    init_log,               \* what the last CamosRAGPipeline(...) printed
    logged_in,              \* st.session_state.logged_in
    user_data,              \* st.session_state.user_data
    messages,               \* st.session_state.messages (<<>>: key not set)
    CAN_ANSWER_QUESTION,    \* the module global of the last script run
    page,                   \* what the browser shows: closed, login, main
    shown,                  \* the notices the last script run displayed
    faq_file,               \* EXCEL_FAQ_FILE
    pending_file,           \* PENDING_QUESTIONS_FILE
    clock,                  \* time.time_ns()
    last                    \* the last operation and what it returned

vars == <<pdf_dir, vector_store_dir, prompt_templates_file, cache, rag_pipeline,
          init_log, logged_in, user_data, messages, CAN_ANSWER_QUESTION, page,
          shown, faq_file, pending_file, clock, last>>

source_vars == <<pdf_dir, prompt_templates_file>>
index_vars == <<vector_store_dir>>
pipeline_vars == <<cache, rag_pipeline, init_log>>
session_vars == <<logged_in, user_data, messages, CAN_ANSWER_QUESTION, page>>
board_vars == <<faq_file, pending_file, clock>>

\* st.cache_resource: nothing cached yet, or the cached return value.
Uncached == [uncached |-> TRUE]
Cached(v) == [value |-> v]

\* st.cache_resource.clear() leaving the cached value in place.
cache_clear_keeps(c) == c

\* st.cache_resource.clear()
cache_clear(c) == Uncached

\* initialize_rag_pipeline_cached under @st.cache_resource: [value, cache,
\* prints, failed]; the body runs only when nothing is cached, and a None it
\* returns is cached like any other value.
initialize_rag_pipeline_cached(c, file, embedOk, dir, log) ==
    IF c # Uncached
    THEN [value |-> c.value, cache |-> c, prints |-> log, failed |-> FALSE]
    ELSE LET made == CamosRAGPipeline(file, embedOk, dir)
             v == IF made.raised THEN None ELSE made.value
         IN  [value |-> v, cache |-> Cached(v), prints |-> made.prints,
              failed |-> made.raised]

\* st.session_state.user_data = {} has no keys.
EmptyDict == [empty_dict |-> TRUE]
Get(d, k, default) == IF d # EmptyDict /\ k \in DOMAIN d THEN d[k] ELSE default

EXPERIENCE_LEVELS == {"0-2yr", "3-5yr", "6yr and above"}

\* CAN_ANSWER_QUESTION testing for any of EXPERIENCE_LEVELS.
CanAnswer_any_level(ud) == Get(ud, "experience_level", "") \in EXPERIENCE_LEVELS

\* CAN_ANSWER_QUESTION as the top of the script computes it.
CanAnswer(ud) == Get(ud, "experience_level", "") \in {"3-5yr", "6yr and above"}

Names == {"", "A", "B"}
Emails == {"", "a@x"}

AI_READY == "AI is ready! Ollama connected."
AI_NOT_READY == "AI not ready. Ensure FAISS index is built by clicking 'Ingest/Rebuild FAISS Index'."
INIT_FAILED == "Failed to initialize RAG Pipeline"
CANNOT_INGEST == "RAG Pipeline not initialized. Cannot ingest data."
NO_DOCUMENTS == "No documents were loaded or processed for ingestion."
SAVE_STORE_FAILED == "Failed to create/save vector store."
LOGIN_REQUIRED == "Name and Email ID are required."
NEED_EXPERIENCE == "You must have 3+ years of experience to answer questions."
ENTER_QUESTION == "Please enter a question."
PROVIDE_ANSWER == "Please provide an answer."
SAVE_ERROR == "Error saving to file"
LOAD_WARNING == "Error loading file. Creating a new empty DataFrame."
CHAT_ERROR == "An error occurred during AI processing"
PIPELINE_MISSING == "RAG Pipeline is not initialized."
UNCAUGHT == "uncaught exception"

GREETING == [role |-> "assistant", content |-> <<"Hello! How can I assist you with Camos today?">>]
APOLOGY == <<"I apologize, an error occurred while processing your request.">>
NOT_YET == <<"The AI is not ready yet.">>

\* The sidebar status of show_main_app.
Sidebar(rp) == IF rp # None THEN {AI_READY} ELSE {AI_NOT_READY}

\* "messages" not in st.session_state: the chat tab sets the greeting.
ChatHistory(m) == IF m = <<>> THEN <<GREETING>> ELSE m

NoPdfs == [d \in Docs |-> Absent]

InitWith(pdfs, dirs, files) ==
    /\ pdf_dir \in pdfs
    /\ vector_store_dir \in dirs
    /\ prompt_templates_file \in files
    /\ cache = Uncached
    /\ rag_pipeline = None
    /\ init_log = <<>>
    /\ logged_in = FALSE
    /\ user_data = EmptyDict
    /\ messages = <<>>
    /\ CAN_ANSWER_QUESTION = FALSE
    /\ page = "closed"
    /\ shown = {}
    /\ faq_file = [exists |-> FALSE, rows |-> <<>>]
    /\ pending_file = [exists |-> FALSE, rows |-> <<>>]
    /\ clock = 0
    /\ last = [op |-> "none"]

\* The top of the script in a run that finds the resource cached or builds it.
ScriptTop(embedOk) ==
    LET r == initialize_rag_pipeline_cached(cache, prompt_templates_file, embedOk,
                                            vector_store_dir, init_log)
    IN  /\ cache' = r.cache
        /\ rag_pipeline' = r.value
        /\ init_log' = r.prints

\* The browser opens the app: the first script run of the process.
OpenApp(embedOk) ==
    /\ page = "closed"
    /\ ScriptTop(embedOk)
    /\ logged_in' = FALSE
    /\ user_data' = EmptyDict
    /\ CAN_ANSWER_QUESTION' = CanAnswer(EmptyDict)
    /\ page' = "login"
    /\ shown' = IF rag_pipeline' = None THEN {INIT_FAILED} ELSE {}
    /\ last' = [op |-> "open"]
    /\ UNCHANGED <<source_vars, index_vars, messages, board_vars>>

\* The login form accepting a submission that has a name and no email.
LoginAccepted_name_only(name, email) == name # ""

\* "if name and email": both texts are non-empty.
LoginAccepted(name, email) == name # "" /\ email # ""

\* show_login_page with the form submitted.
Login(name, email, experience_level) ==
    /\ page = "login"
    /\ ScriptTop(TRUE)
    /\ IF LoginAccepted(name, email)
       THEN /\ logged_in' = TRUE
            /\ user_data' = [name |-> name, email |-> email,
                             experience_level |-> experience_level]
            \* st.rerun(): the script runs again, now into show_main_app
            /\ CAN_ANSWER_QUESTION' = CanAnswer(user_data')
            /\ page' = "main"
            /\ messages' = ChatHistory(messages)
            /\ shown' = Sidebar(rag_pipeline')
       ELSE /\ CAN_ANSWER_QUESTION' = CanAnswer(user_data)
            /\ shown' = {LOGIN_REQUIRED}
            /\ UNCHANGED <<logged_in, user_data, page, messages>>
    /\ last' = [op |-> "login", ok |-> logged_in', name |-> name, email |-> email]
    /\ UNCHANGED <<source_vars, index_vars, board_vars>>

\* The Logout button: on_click clears st.session_state, then the script runs.
Logout ==
    /\ page = "main"
    /\ ScriptTop(TRUE)
    /\ logged_in' = FALSE
    /\ user_data' = EmptyDict
    /\ messages' = <<>>
    /\ CAN_ANSWER_QUESTION' = CanAnswer(EmptyDict)
    /\ page' = "login"
    /\ shown' = {}
    /\ last' = [op |-> "logout"]
    /\ UNCHANGED <<source_vars, index_vars, board_vars>>

\* os.makedirs(path, exist_ok=True)
makedirs(dir) == IF dir.exists THEN dir ELSE EmptyDir

\* The sidebar button "Ingest/Rebuild FAISS Index": ingest_camos_data_to_faiss.
\* embedOk: the embedding model works in create_and_save_vector_store;
\* embedOk2: it works when the rerun builds the pipeline again.
Ingest(embedOk, embedOk2) ==
    /\ page = "main"
    /\ logged_in
    /\ IF rag_pipeline = None
       THEN /\ ScriptTop(TRUE)
            /\ shown' = {CANNOT_INGEST} \cup Sidebar(rag_pipeline')
            /\ last' = [op |-> "ingest", started |-> FALSE, documents |-> <<>>,
                        saved |-> FALSE, raised |-> FALSE]
            /\ UNCHANGED index_vars
       ELSE LET all_documents == load_and_process_camos_docs(pdf_dir)
                made == create_and_save_vector_store(all_documents, embedOk,
                                                     makedirs(vector_store_dir))
            IN  IF all_documents = <<>>
                THEN /\ ScriptTop(TRUE)
                     /\ vector_store_dir' = makedirs(vector_store_dir)
                     /\ shown' = {NO_DOCUMENTS} \cup Sidebar(rag_pipeline')
                     /\ last' = [op |-> "ingest", started |-> TRUE, documents |-> <<>>,
                                 saved |-> FALSE, raised |-> FALSE]
                ELSE IF made.raised
                THEN /\ ScriptTop(TRUE)
                     /\ vector_store_dir' = made.dir
                     /\ shown' = {UNCAUGHT}
                     /\ last' = [op |-> "ingest", started |-> TRUE,
                                 documents |-> all_documents,
                                 saved |-> FALSE, raised |-> TRUE]
                ELSE IF made.value # None
                THEN \* st.cache_resource.clear(); st.rerun()
                     LET r == initialize_rag_pipeline_cached(cache_clear(cache),
                                  prompt_templates_file, embedOk2, made.dir, init_log)
                     IN  /\ vector_store_dir' = made.dir
                         /\ cache' = r.cache
                         /\ rag_pipeline' = r.value
                         /\ init_log' = r.prints
                         /\ shown' = Sidebar(r.value)
                                     \cup (IF r.failed THEN {INIT_FAILED} ELSE {})
                         /\ last' = [op |-> "ingest", started |-> TRUE,
                                     documents |-> all_documents,
                                     saved |-> TRUE, raised |-> FALSE]
                ELSE /\ ScriptTop(TRUE)
                     /\ vector_store_dir' = made.dir
                     /\ shown' = {SAVE_STORE_FAILED} \cup Sidebar(rag_pipeline')
                     /\ last' = [op |-> "ingest", started |-> TRUE,
                                 documents |-> all_documents,
                                 saved |-> FALSE, raised |-> FALSE]
    /\ CAN_ANSWER_QUESTION' = CanAnswer(user_data)
    /\ messages' = ChatHistory(messages)
    /\ UNCHANGED <<source_vars, logged_in, user_data, page, board_vars>>

\* A chat prompt, by the words its lower-cased text contains.
Prompts == SUBSET {"error", "code"}

\* The chat input of the Chatbot tab.
Chat(prompt, outcome) ==
    /\ page = "main"
    /\ logged_in
    /\ Len(ChatHistory(messages)) < 1 + 2 * MaxChats
    /\ ScriptTop(TRUE)
    /\ LET asked == Append(ChatHistory(messages), [role |-> "user", content |-> <<prompt>>])
           isDebug == "error" \in prompt /\ "code" \in prompt
           response ==
               IF isDebug
               THEN debug_code(rag_pipeline,
                               "Please provide the code snippet you're working with.",
                               "Please provide the exact error message.", outcome)
               ELSE query_rag(rag_pipeline, prompt, outcome)
       IN  IF rag_pipeline # None
           THEN /\ messages' = Append(asked, [role |-> "assistant",
                                   content |-> IF response.raised THEN APOLOGY
                                               ELSE response.value])
                /\ shown' = Sidebar(rag_pipeline')
                            \cup (IF response.raised THEN {CHAT_ERROR} ELSE {})
                /\ last' = [op |-> "chat",
                            fn |-> IF isDebug THEN "debug_code" ELSE "query_rag",
                            outcome |-> outcome, result |-> response]
           ELSE /\ messages' = Append(asked, [role |-> "assistant", content |-> NOT_YET])
                /\ shown' = Sidebar(rag_pipeline') \cup {PIPELINE_MISSING}
                /\ last' = [op |-> "chat", fn |-> "none", outcome |-> outcome,
                            result |-> Return(NOT_YET) @@ [chain_called |-> FALSE]]
    /\ CAN_ANSWER_QUESTION' = CanAnswer(user_data)
    /\ UNCHANGED <<source_vars, index_vars, logged_in, user_data, page, board_vars>>

\* A spreadsheet cell holds text; pandas reads an empty cell as NaN and
\* writes NaN as an empty cell.
NaN == "NaN"
from_cell(c) == IF c = "" THEN NaN ELSE c
to_cell(v) == IF v = NaN THEN "" ELSE v

read_excel(rows) ==
    [i \in 1..Len(rows) |->
        [k \in DOMAIN rows[i] |-> IF k = "id" THEN rows[i][k] ELSE from_cell(rows[i][k])]]
to_excel(df) ==
    [i \in 1..Len(df) |->
        [k \in DOMAIN df[i] |-> IF k = "id" THEN df[i][k] ELSE to_cell(df[i][k])]]

\* load_data_from_excel: [df, warned].  readOk: pd.read_excel succeeds.
load_data_from_excel(file, readOk) ==
    IF file.exists
    THEN IF readOk THEN [df |-> read_excel(file.rows), warned |-> FALSE]
         ELSE [df |-> <<>>, warned |-> TRUE]
    ELSE [df |-> <<>>, warned |-> FALSE]

\* pd.read_excel is reached, and so can fail, only for a file that exists.
ReadOutcomes(file) == IF file.exists THEN BOOLEAN ELSE {TRUE}

\* save_data_to_excel: [ok, file].  saveOk: df.to_excel succeeds.
save_data_to_excel(df, file, saveOk) ==
    IF saveOk THEN [ok |-> TRUE, file |-> [exists |-> TRUE, rows |-> to_excel(df)]]
    ELSE [ok |-> FALSE, file |-> file]

\* DataFrame.drop(index) on a frame with a RangeIndex.
drop(df, i) == SubSeq(df, 1, i - 1) \o SubSeq(df, i + 1, Len(df))

QuestionInputs == {"", " q"}
AnswerInputs == {"", "a "}
SearchInputs == {"", "q"}

\* Series.str.contains(query, case=False, na=False) on the model's texts.
contains(text, query) == text # NaN /\ text = query

\* The rows of faqs_df whose question or answer matches the query.
RECURSIVE FilterFaqs(_, _, _)
FilterFaqs(df, query, i) ==
    IF i > Len(df) THEN <<>>
    ELSE (IF contains(df[i].question, query) \/ contains(df[i].answer, query)
          THEN <<df[i]>> ELSE <<>>) \o FilterFaqs(df, query, i + 1)

\* The FAQs tab with a search query typed in.
BrowseFaqs(search_query, readOk) ==
    /\ page = "main"
    /\ logged_in
    /\ ScriptTop(TRUE)
    /\ LET faqs == load_data_from_excel(faq_file, readOk)
           filtered == IF search_query # "" THEN FilterFaqs(faqs.df, search_query, 1)
                       ELSE faqs.df
       IN  /\ shown' = Sidebar(rag_pipeline')
                       \cup (IF faqs.warned THEN {LOAD_WARNING} ELSE {})
           /\ last' = [op |-> "faqs", rendered |-> TRUE, rows |-> filtered]
    /\ CAN_ANSWER_QUESTION' = CanAnswer(user_data)
    /\ messages' = ChatHistory(messages)
    /\ UNCHANGED <<source_vars, index_vars, logged_in, user_data, page, board_vars>>

\* The form "ask_question_form" submitted.
SubmitQuestion(new_question, readOk, saveOk) ==
    /\ page = "main"
    /\ logged_in
    /\ clock < MaxQuestions
    /\ ScriptTop(TRUE)
    /\ IF new_question # ""
       THEN LET pending == load_data_from_excel(pending_file, readOk)
                new_row == [id |-> clock + 1, question |-> strip(new_question),
                            asked_by |-> user_data.name]
                saved == save_data_to_excel(<<new_row>> \o pending.df,
                                            pending_file, saveOk)
            IN  /\ pending_file' = saved.file
                /\ clock' = clock + 1
                /\ shown' = Sidebar(rag_pipeline')
                            \cup (IF saved.ok THEN {} ELSE {SAVE_ERROR})
                            \cup (IF pending.warned /\ ~saved.ok THEN {LOAD_WARNING} ELSE {})
                /\ last' = [op |-> "submit", accepted |-> TRUE, id |-> clock + 1,
                            saved |-> saved.ok]
       ELSE /\ shown' = Sidebar(rag_pipeline') \cup {ENTER_QUESTION}
            /\ last' = [op |-> "submit", accepted |-> FALSE, id |-> 0, saved |-> FALSE]
            /\ UNCHANGED <<pending_file, clock>>
    /\ CAN_ANSWER_QUESTION' = CanAnswer(user_data)
    /\ messages' = ChatHistory(messages)
    /\ UNCHANGED <<source_vars, index_vars, logged_in, user_data, page, faq_file>>

\* A user sets out to answer the pending question in row i with the text
\* answer: the form "answer_form_<id>" exists only under CAN_ANSWER_QUESTION.
\* The reads and saves of the handler succeed or fail where they are made.
Answer(i, answer, readPending) ==
    /\ page = "main"
    /\ logged_in
    /\ i \in 1..Len(pending_file.rows)
    /\ Len(faq_file.rows) < MaxQuestions
    /\ ScriptTop(TRUE)
    /\ CAN_ANSWER_QUESTION' = CanAnswer(user_data)
    /\ LET pending == load_data_from_excel(pending_file, readPending)
           pending_q == pending.df[i]
           said(refused, accepted, id) ==
               [op |-> "answer", refused |-> refused, accepted |-> accepted,
                id |-> id, level |-> user_data.experience_level]
       IN  IF pending.df = <<>>
           THEN /\ shown' = Sidebar(rag_pipeline')
                            \cup (IF pending.warned THEN {LOAD_WARNING} ELSE {})
                /\ last' = said(FALSE, FALSE, 0)
                /\ UNCHANGED <<faq_file, pending_file>>
           ELSE IF ~CAN_ANSWER_QUESTION'
           THEN /\ shown' = Sidebar(rag_pipeline') \cup {NEED_EXPERIENCE}
                /\ last' = said(TRUE, FALSE, pending_q.id)
                /\ UNCHANGED <<faq_file, pending_file>>
           ELSE IF answer # ""
           THEN \E readFaq \in ReadOutcomes(faq_file), saveFaq, savePending \in BOOLEAN :
                    LET faqs == load_data_from_excel(faq_file, readFaq)
                        new_faq_row ==
                            [id |-> pending_q.id, question |-> pending_q.question,
                             answer |-> strip(answer),
                             created_by |-> user_data.name]
                        savedF == save_data_to_excel(<<new_faq_row>> \o faqs.df,
                                                     faq_file, saveFaq)
                        savedP == save_data_to_excel(drop(pending.df, i),
                                                     pending_file, savePending)
                    IN  /\ faq_file' = savedF.file
                        /\ pending_file' = savedP.file
                        \* st.rerun(): the notices of this run are gone
                        /\ shown' = Sidebar(rag_pipeline')
                        /\ last' = said(FALSE, TRUE, pending_q.id)
           ELSE /\ shown' = Sidebar(rag_pipeline') \cup {PROVIDE_ANSWER}
                /\ last' = said(FALSE, FALSE, pending_q.id)
                /\ UNCHANGED <<faq_file, pending_file>>
    /\ messages' = ChatHistory(messages)
    /\ UNCHANGED <<source_vars, index_vars, logged_in, user_data, page, clock>>

\* A file is put into, or taken out of, pdf_data_dir.
PutDoc(d, pdf) ==
    /\ pdf_dir[d] = Absent
    /\ pdf_dir' = [pdf_dir EXCEPT ![d] = pdf]
    /\ last' = [op |-> "env"]
    /\ UNCHANGED <<prompt_templates_file, index_vars, pipeline_vars, session_vars,
                   shown, board_vars>>

RemoveDoc(d) ==
    /\ pdf_dir[d] # Absent
    /\ pdf_dir' = [pdf_dir EXCEPT ![d] = Absent]
    /\ last' = [op |-> "env"]
    /\ UNCHANGED <<prompt_templates_file, index_vars, pipeline_vars, session_vars,
                   shown, board_vars>>

\* The server process is restarted: the resource cache and the session go,
\* the files stay.
Restart ==
    /\ page # "closed"
    /\ cache' = Uncached
    /\ rag_pipeline' = None
    /\ init_log' = <<>>
    /\ logged_in' = FALSE
    /\ user_data' = EmptyDict
    /\ messages' = <<>>
    /\ CAN_ANSWER_QUESTION' = FALSE
    /\ page' = "closed"
    /\ shown' = {}
    /\ last' = [op |-> "env"]
    /\ UNCHANGED <<source_vars, index_vars, board_vars>>

\* load_vector_store called on the directory at vector_store_path.
CallLoadVectorStore(embedOk) ==
    /\ last' = [op |-> "load_vector_store", dir |-> vector_store_dir,
                embedOk |-> embedOk,
                result |-> load_vector_store(embedOk, vector_store_dir)]
    /\ UNCHANGED <<source_vars, index_vars, pipeline_vars, session_vars, shown,
                   board_vars>>

\* load_and_process_camos_docs called on the directory at pdf_data_dir.
CallLoadAndProcess ==
    /\ last.op = "none"
    /\ last' = [op |-> "load_and_process_camos_docs",
                documents |-> load_and_process_camos_docs(pdf_dir)]
    /\ UNCHANGED <<source_vars, index_vars, pipeline_vars, session_vars, shown,
                   board_vars>>

\* create_and_save_vector_store called on the directory at vector_store_path
\* with no chunk records, or with those of the documents in pdf_data_dir.
CallCreateAndSave(documents, embedOk) ==
    LET made == create_and_save_vector_store(documents, embedOk, vector_store_dir)
    IN  /\ vector_store_dir' = made.dir
        /\ last' = [op |-> "create_and_save_vector_store", documents |-> documents,
                    result |-> [raised |-> made.raised, value |-> made.value]]
        /\ UNCHANGED <<source_vars, pipeline_vars, session_vars, shown, board_vars>>

\* ------------------------------------------------------- specifications

TemplateFiles ==
    {AbsentFile, GoodTemplates,
     [rag |-> TRUE, debug |-> "missing"], [rag |-> TRUE, debug |-> "bad_field"],
     [rag |-> FALSE, debug |-> "ok"]}

\* The application with its knowledge base: ingestion, the pipeline and chat.
Init == InitWith({NoPdfs}, {MissingDir, EmptyDir}, TemplateFiles)

Next ==
    \/ \E e \in BOOLEAN : OpenApp(e)
    \/ \E l \in EXPERIENCE_LEVELS : Login("A", "a@x", l)
    \/ Logout
    \/ \E e1, e2 \in BOOLEAN : Ingest(e1, e2)
    \/ \E d \in Docs, pdf \in {TextPdf, CorruptPdf} : PutDoc(d, pdf)
    \/ \E d \in Docs : RemoveDoc(d)
    \/ Restart
    \/ \E e \in BOOLEAN : CallLoadVectorStore(e)
    \/ \E q \in SearchInputs, r \in ReadOutcomes(faq_file) : BrowseFaqs(q, r)

Spec == Init /\ [][Next]_vars

\* The index builder, called directly and by the ingestion button.
InitStore == InitWith({NoPdfs}, {MissingDir, EmptyDir}, {GoodTemplates})

NextStore ==
    \/ \E e \in BOOLEAN : OpenApp(e)
    \/ Login("A", "a@x", "3-5yr")
    \/ \E e1, e2 \in BOOLEAN : Ingest(e1, e2)
    \/ \E d \in Docs, pdf \in {TextPdf, CorruptPdf} : PutDoc(d, pdf)
    \/ \E d \in Docs : RemoveDoc(d)
    \/ \E docs \in {<<>>, load_and_process_camos_docs(pdf_dir)}, e \in BOOLEAN :
           CallCreateAndSave(docs, e)

SpecStore == InitStore /\ [][NextStore]_vars

\* Ingestion while the application is running, and the chat after it.
InitReady ==
    InitWith({NoPdfs}, {MissingDir, EmptyDir},
             {GoodTemplates, [rag |-> FALSE, debug |-> "ok"]})

NextReady ==
    \/ \E e \in BOOLEAN : OpenApp(e)
    \/ Login("A", "a@x", "3-5yr")
    \/ \E e1, e2 \in BOOLEAN : Ingest(e1, e2)
    \/ \E d \in Docs, pdf \in {TextPdf, CorruptPdf} : PutDoc(d, pdf)
    \/ \E d \in Docs : RemoveDoc(d)
    \/ \E p \in Prompts, o \in ChainOutcomes : Chat(p, o)
    \/ Restart

SpecReady == InitReady /\ [][NextReady]_vars

\* One browser session through login, every operation of the main page and
\* logout.
InitSession == InitWith({NoPdfs}, {MissingDir}, {GoodTemplates})

NextSession ==
    \/ OpenApp(TRUE)
    \/ \E n \in {"", "A"}, m \in Emails, l \in EXPERIENCE_LEVELS : Login(n, m, l)
    \/ Logout
    \/ Ingest(TRUE, TRUE)
    \/ PutDoc(1, TextPdf)
    \/ \E o \in ChainOutcomes : Chat({}, o)
    \/ \E q \in QuestionInputs : SubmitQuestion(q, TRUE, TRUE)
    \/ \E i \in 1..Len(pending_file.rows), a \in AnswerInputs : Answer(i, a, TRUE)
    \/ Restart

SpecSession == InitSession /\ [][NextSession]_vars

\* The chat tab over a knowledge base that is missing, empty or built.
InitChat ==
    InitWith({NoPdfs},
             {MissingDir, EmptyDir, IndexDir(<<Document(1, "body_text")>>)},
             TemplateFiles)

NextChat ==
    \/ \E e \in BOOLEAN : OpenApp(e)
    \/ \E l \in EXPERIENCE_LEVELS : Login("A", "a@x", l)
    \/ Logout
    \/ \E p \in Prompts, o \in ChainOutcomes : Chat(p, o)
    \/ Restart

SpecChat == InitChat /\ [][NextChat]_vars

\* The ingestor alone, on every directory of up to MaxDocs files.
InitIngestor ==
    InitWith([Docs -> PdfFiles \cup {Absent}], {MissingDir}, {GoodTemplates})

NextIngestor == CallLoadAndProcess

SpecIngestor == InitIngestor /\ [][NextIngestor]_vars

\* The question board: login, questions and answers.
InitBoard == InitWith({NoPdfs}, {MissingDir}, {GoodTemplates})

NextBoard ==
    \/ OpenApp(TRUE)
    \/ \E n \in Names, m \in Emails, l \in EXPERIENCE_LEVELS : Login(n, m, l)
    \/ Logout
    \/ \E q \in QuestionInputs, r \in ReadOutcomes(pending_file), s \in BOOLEAN :
           SubmitQuestion(q, r, s)
    \/ \E i \in 1..Len(pending_file.rows), a \in AnswerInputs,
          r \in ReadOutcomes(pending_file) :
           Answer(i, a, r)
    \/ \E q \in SearchInputs, r \in ReadOutcomes(faq_file) : BrowseFaqs(q, r)

SpecBoard == InitBoard /\ [][NextBoard]_vars

\* ---------------------------------------------------------------- claims

Range(seq) == {seq[i] : i \in 1..Len(seq)}
NoIndexAt(dir) == ~dir.exists \/ dir.files = <<>>

\* C1: query_rag never lets an exception out: when the chain is ready and
\* retrieval or the LLM fails with error e, it returns the error string
\* that embeds e, and the chat shows it as an ordinary assistant message.
C1_QueryRagFailureToString ==
    (last.op = "chat" /\ last.fn = "query_rag") =>
        /\ ~last.result.raised
        /\ (rag_pipeline.qa_chain # None /\ ~last.outcome.ok) =>
               /\ last.result.value = RagErrorMsg(last.outcome.err)
               /\ last.outcome.err \in Range(last.result.value)
               /\ messages[Len(messages)] =
                      [role |-> "assistant", content |-> last.result.value]
               /\ CHAT_ERROR \notin shown
               /\ page = "main"

C1_Witness ==
    /\ last.op = "chat" /\ last.fn = "query_rag"
    /\ rag_pipeline.qa_chain # None
    /\ ~last.outcome.ok /\ last.outcome.stage = "retrieval"

\* C2: debug_code never lets an exception out, whatever fails while the
\* debug template is filled or the LLM is invoked.
C2_DebugCodeFailureToString ==
    (last.op = "chat" /\ last.fn = "debug_code") => ~last.result.raised

\* C3: with a working embedding model, loading from a directory that is
\* missing or empty returns None and does not raise, by load_vector_store
\* itself and through the pipeline's _load_or_recreate_vector_store.
C3_LoadWithoutIndexReturnsNone ==
    /\ (last.op = "load_vector_store" /\ NoIndexAt(last.dir) /\ last.embedOk) =>
           last.result = Return(None)
    /\ NoIndexAt(vector_store_dir) =>
           \A e \in BOOLEAN :
               LET r == _load_or_recreate_vector_store(e, vector_store_dir)
               IN  ~r.raised /\ r.value = None

\* C4: while the index is missing or the pipeline failed to initialise, the
\* main page shows the not-ready warning, a click on the ingestion button
\* carries the ingestion out, and the FAQ tab renders.
C4_DegradedModeKeepsIngestion ==
    /\ (page = "main" /\ UNCAUGHT \notin shown
        /\ (rag_pipeline = None \/ NoIndexAt(vector_store_dir))) =>
           AI_NOT_READY \in shown
    /\ last.op = "ingest" => last.started
    /\ last.op = "faqs" => last.rendered

\* C5: every readable document of the directory contributes its primary
\* text, and a failure in one extraction stage leaves the results of the
\* other stage in the returned chunks.
C5_IngestionFailureIsolated ==
    last.op = "load_and_process_camos_docs" =>
        \A d \in Docs :
            (pdf_dir[d] # Absent /\ pdf_dir[d].loader = "ok") =>
                /\ Document(d, "body_text") \in Range(last.documents)
                /\ pdf_dir[d].image = "ok" =>
                       Document(d, "image_ocr") \in Range(last.documents)
                /\ pdf_dir[d].table = "ok" =>
                       Document(d, "table_data") \in Range(last.documents)

\* C6 as claimed: after every ingestion run that went through (also one
\* that found zero documents) every chunk of the persisted index comes
\* from a document present in the source directory at that run.
C6_IndexHoldsOnlyPresentDocs ==
    (last.op = "ingest" /\ last.started /\ ~last.raised) =>
        \A c \in Range(vector_store_dir.files) : pdf_dir[c.source] # Absent

\* C6 as amended: an ingestion run that saves replaces the persisted index
\* by exactly that run's chunks, all of documents present in the source
\* directory; a run that ends before the build (pipeline not initialised,
\* or no chunks) leaves the index files as they were.
C6_SavedIndexIsSnapshot ==
    [][last'.op = "ingest" =>
          IF last'.saved
          THEN /\ vector_store_dir' = IndexDir(load_and_process_camos_docs(pdf_dir))
               /\ vector_store_dir'.files # <<>>
               /\ \A c \in Range(vector_store_dir'.files) : pdf_dir[c.source] # Absent
          ELSE ~last'.raised => vector_store_dir'.files = vector_store_dir.files]_vars

C6_Witness ==
    /\ last.op = "ingest" /\ last.saved
    /\ \E d \in Docs : pdf_dir[d] = CorruptPdf
    /\ Len(vector_store_dir.files) = 1

\* C7: an accepted answer removes exactly the answered entry from the
\* pending store and puts exactly one entry, with its id and question and
\* the answering user's name, in front of the FAQ store.
C7_AnswerMovesEntry ==
    [][(last'.op = "answer" /\ last'.accepted) =>
          \E i \in 1..Len(pending_file.rows) :
              /\ pending_file.rows[i].id = last'.id
              /\ pending_file'.rows = drop(pending_file.rows, i)
              /\ Len(faq_file'.rows) = Len(faq_file.rows) + 1
              /\ Tail(faq_file'.rows) = faq_file.rows
              /\ faq_file'.rows[1].id = last'.id
              /\ faq_file'.rows[1].question = pending_file.rows[i].question
              /\ faq_file'.rows[1].created_by = user_data.name]_vars

\* C8: a user logged in with "0-2yr" never has the answering privilege, and
\* an attempt to answer by such a user is refused and changes neither store.
C8_JuniorCannotAnswer ==
    [][/\ (logged_in' /\ Get(user_data', "experience_level", "") = "0-2yr") =>
              ~CAN_ANSWER_QUESTION'
       /\ (last'.op = "answer" /\ last'.level = "0-2yr") =>
              /\ ~last'.accepted
              /\ last'.refused \/ LOAD_WARNING \in shown'
              /\ faq_file' = faq_file
              /\ pending_file' = pending_file]_vars

C8_Witness ==
    /\ last.op = "answer" /\ last.level = "0-2yr" /\ last.refused
    /\ NEED_EXPERIENCE \in shown
    /\ Len(pending_file.rows) > 0

\* C9: a pipeline with no loaded vector index answers every question with
\* the fixed not-ready message and invokes neither retriever nor LLM.
C9_NotReadyMessage ==
    (last.op = "chat" /\ last.fn = "query_rag" /\ rag_pipeline.vectorstore = None) =>
        /\ ~last.result.raised
        /\ last.result.value = NOT_READY_MSG
        /\ ~last.result.chain_called
        /\ messages[Len(messages)] = [role |-> "assistant", content |-> NOT_READY_MSG]

C9_Witness ==
    /\ last.op = "chat" /\ last.fn = "query_rag"
    /\ rag_pipeline.vectorstore = None
    /\ ~last.outcome.ok

\* C10: a construction that finds no index at the configured path yields a
\* pipeline object with both clients built and with vectorstore, retriever
\* and qa_chain None.
NotReadyPipeline(p) ==
    /\ p # None
    /\ p.embeddings = "built" /\ p.llm = "built"
    /\ p.vectorstore = None /\ p.retriever = None /\ p.qa_chain = None

C10_ConstructsWithoutIndex ==
    /\ "FAISS index not found" \in Range(init_log) =>
           /\ NotReadyPipeline(rag_pipeline)
           /\ cache = Cached(rag_pipeline)
    /\ (NoIndexAt(vector_store_dir) /\ prompt_templates_file # AbsentFile) =>
           LET made == CamosRAGPipeline(prompt_templates_file, TRUE, vector_store_dir)
           IN  ~made.raised /\ NotReadyPipeline(made.value)

C10_Witness ==
    /\ "FAISS index not found" \in Range(init_log)
    /\ page = "main"
    /\ vector_store_dir = EmptyDir
    /\ prompt_templates_file = [rag |-> FALSE, debug |-> "ok"]

\* C11: create_and_save_vector_store given no chunk records returns None and
\* leaves the target directory, with any index persisted in it, exactly as
\* it was.  An ingestion run of the application that finds no chunk records
\* never reaches the build: it writes no index files, and the directory is
\* what os.makedirs made of it before the documents were loaded.
C11_EmptyBuildWritesNothing ==
    [][/\ (last'.op = "create_and_save_vector_store" /\ last'.documents = <<>>) =>
              /\ last'.result = Return(None)
              /\ vector_store_dir' = vector_store_dir
       /\ (last'.op = "ingest" /\ last'.started /\ last'.documents = <<>>) =>
              /\ ~last'.saved /\ ~last'.raised
              /\ vector_store_dir'.files = vector_store_dir.files
              /\ vector_store_dir' = makedirs(vector_store_dir)
              /\ NO_DOCUMENTS \in shown']_vars

C11_Witness ==
    /\ last.op = "create_and_save_vector_store"
    /\ last.documents = <<>>
    /\ vector_store_dir.exists /\ vector_store_dir.files # <<>>
    /\ page = "main"

HoldsId(rows, id) == \E i \in 1..Len(rows) : rows[i].id = id

\* C12: the answer operation neither loses nor duplicates a question,
\* whatever each save_data_to_excel call does: every question id that is in
\* exactly one of the pending store and the FAQ store before an answer is
\* submitted is in exactly one of them afterwards.
C12_NoQuestionLostOrDuplicated ==
    [][last'.op = "answer" =>
          \A id \in 1..clock :
              (HoldsId(pending_file.rows, id) # HoldsId(faq_file.rows, id)) =>
                  (HoldsId(pending_file'.rows, id) # HoldsId(faq_file'.rows, id))]_vars

\* C13 as claimed: after an ingestion run that built and saved an index the
\* application is ready: a pipeline is served, it has its chain, and
\* query_rag does not return the not-ready message.
C13_SavedIngestionMakesReady ==
    (last.op = "ingest" /\ last.saved) =>
        /\ rag_pipeline # None
        /\ rag_pipeline.qa_chain # None
        /\ \A p \in Prompts, o \in ChainOutcomes :
               query_rag(rag_pipeline, p, o).value # NOT_READY_MSG

\* The pipeline holds the index that is persisted: none when there is none.
Mirrors(p, dir) ==
    IF NoIndexAt(dir) THEN p.vectorstore = None
    ELSE p.vectorstore = [docs |-> dir.files] /\ p.qa_chain # None

\* C13 as amended: an ingestion run that saved an index clears the resource
\* cache and the rerun constructs the pipeline again.  When the construction
\* returns, the pipeline served holds the index just saved and the sidebar
\* reports ready; when it raises, no pipeline is served (None is cached,
\* the failure and the not-ready warning are shown, the chat calls neither
\* query_rag nor debug_code).  A served pipeline always holds the persisted
\* index, and query_rag over a persisted index never returns the not-ready
\* message.
C13_SavedIngestionRebuildsPipeline ==
    [][/\ (last'.op = "ingest" /\ last'.saved) =>
              /\ vector_store_dir'.files = load_and_process_camos_docs(pdf_dir)
              /\ vector_store_dir'.files # <<>>
              /\ cache' = Cached(rag_pipeline')
              /\ IF rag_pipeline' # None
                 THEN shown' = {AI_READY}
                 ELSE shown' = {INIT_FAILED, AI_NOT_READY}
       /\ rag_pipeline' # None => Mirrors(rag_pipeline', vector_store_dir')
       /\ (last'.op = "chat" /\ rag_pipeline' = None) => last'.fn = "none"
       /\ (last'.op = "chat" /\ last'.fn = "query_rag"
           /\ ~NoIndexAt(vector_store_dir')) =>
              /\ last'.result.value # NOT_READY_MSG
              /\ last'.result.chain_called]_vars

C13_Witness ==
    /\ last.op = "chat" /\ last.fn = "query_rag"
    /\ vector_store_dir.files = <<Document(2, "body_text")>>
    /\ last.result.value = <<"answer to ", {}>>
    /\ "FAISS index not found" \notin Range(init_log)

\* The operations of the main page.
GatedOps == {"chat", "ingest", "submit", "answer", "faqs"}

\* user_data as a login leaves it.
LoggedInUser(ud) ==
    /\ ud # EmptyDict
    /\ ud.name # "" /\ ud.email # ""
    /\ ud.experience_level \in EXPERIENCE_LEVELS

\* C14: a chat query, an ingestion, a question submission and an answer run
\* only in a session that is logged in with a non-empty name and email and
\* one of the three experience levels, and leave the login as it is; the
\* main page is shown exactly while logged in; a login attempt with an
\* empty name or email leaves the session logged out; a logout clears the
\* session state, and the run after it shows the login page with no
\* answering privilege.
C14_LoginGatesOperations ==
    [][/\ last'.op \in GatedOps =>
              /\ logged_in /\ LoggedInUser(user_data)
              /\ logged_in' /\ user_data' = user_data
       /\ page' # "closed" => (page' = "main" <=> logged_in')
       /\ logged_in' => LoggedInUser(user_data')
       /\ ~logged_in' => (user_data' = EmptyDict /\ ~CAN_ANSWER_QUESTION')
       /\ last'.op = "login" =>
              /\ last'.ok <=> (last'.name # "" /\ last'.email # "")
              /\ last'.ok <=> logged_in'
              /\ ~last'.ok => (page' = "login" /\ shown' = {LOGIN_REQUIRED})
       /\ last'.op = "logout" =>
              /\ logged_in /\ ~logged_in'
              /\ user_data' = EmptyDict /\ messages' = <<>>
              /\ page' = "login"
              /\ ~CAN_ANSWER_QUESTION']_vars

C14_Witness ==
    /\ last.op = "login" /\ ~last.ok
    /\ last.name # "" /\ last.email = ""
    /\ ~logged_in /\ page = "login"
    /\ faq_file.exists /\ messages = <<>>
====
